---------------------------- MODULE Spec2Model ----------------------------
(***************************************************************************)
(* A model of the leadgen scoring / filtering / deduplication pipeline     *)
(* (leadgen/filters.py, leadgen/models.py, leadgen/cli.py and the record   *)
(* construction of leadgen/sources/yellowpages.py).                        *)
(*                                                                         *)
(* Conventions.                                                            *)
(*  - A Python string is a sequence of one-character strings, so that      *)
(*    lower(), strip(), concatenation and the substring test `in` are      *)
(*    computed character by character.                                     *)
(*  - An Optional value is a sequence of length at most one: None is <<>>  *)
(*    and a present value x is <<x>>.                                      *)
(*  - Floats are exact integers: a signal bonus and max_score are counted  *)
(*    in hundredths (0.25 is 25), a growth score in thousandths (0.65 is   *)
(*    650, the precision round(_, 3) leaves), a rating in tenths of a star.*)
(*  - A Lead object is a position of the sequence `leads` (its identity);  *)
(*    a Python list of leads is a sequence of such positions.              *)
(***************************************************************************)
EXTENDS Integers, Sequences, FiniteSets

VARIABLES
    leads,      \* the Lead objects, mutated in place
    listing,    \* the list of leads the running function holds or returned
    window,     \* <<minimum, maximum>> of the budget filter
    ret,        \* Optional: the value the last scorer/estimator call returned
    pc          \* position of the caller

vars == <<leads, listing, window, ret, pc>>

----------------------------------------------------------------------------
(* Optional values and Python truthiness.                                  *)

None == <<>>

Some(x) == <<x>>

IsNone(o) == o = None

Get(o) == o[1]

\* `x or 0` for an Optional[number]: None and 0 both give 0.
OrZero(o) == IF IsNone(o) THEN 0 ELSE Get(o)

\* bool(x) for an Optional[str]: None and "" are falsy.
TruthyStr(o) == ~IsNone(o) /\ Get(o) # <<>>

\* bool(x) for an Optional[number]: None and 0 are falsy.
TruthyNum(o) == ~IsNone(o) /\ Get(o) # 0

\* bool(analytics.get("adclick")): a missing key and a false value are falsy.
TruthyFlag(o) == ~IsNone(o) /\ Get(o) = TRUE

----------------------------------------------------------------------------
(* Strings.                                                                *)

LowerChar(c) ==
    CASE c = "A" -> "a" [] c = "B" -> "b" [] c = "C" -> "c" [] c = "D" -> "d"
      [] c = "E" -> "e" [] c = "F" -> "f" [] c = "G" -> "g" [] c = "H" -> "h"
      [] c = "I" -> "i" [] c = "J" -> "j" [] c = "K" -> "k" [] c = "L" -> "l"
      [] c = "M" -> "m" [] c = "N" -> "n" [] c = "O" -> "o" [] c = "P" -> "p"
      [] c = "Q" -> "q" [] c = "R" -> "r" [] c = "S" -> "s" [] c = "T" -> "t"
      [] c = "U" -> "u" [] c = "V" -> "v" [] c = "W" -> "w" [] c = "X" -> "x"
      [] c = "Y" -> "y" [] c = "Z" -> "z" [] OTHER -> c

\* str.lower()
Lower(s) == [k \in 1..Len(s) |-> LowerChar(s[k])]

Whitespace == {" ", "\t", "\n"}

\* str.strip(): drop the leading and the trailing whitespace.
Strip(s) ==
    LET inner == {k \in 1..Len(s) : s[k] \notin Whitespace}
    IN  IF inner = {} THEN <<>>
        ELSE LET first == CHOOSE k \in inner : \A j \in inner : k <= j
                 last  == CHOOSE k \in inner : \A j \in inner : k >= j
             IN  SubSeq(s, first, last)

\* `sub in s`
Contains(s, sub) ==
    \E k \in 1..(Len(s) - Len(sub) + 1) : SubSeq(s, k, k + Len(sub) - 1) = sub

RECURSIVE JoinSpace(_)
\* " ".join(parts)
JoinSpace(parts) ==
    IF parts = <<>> THEN <<>>
    ELSE IF Len(parts) = 1 THEN parts[1]
    ELSE parts[1] \o <<" ">> \o JoinSpace(Tail(parts))

----------------------------------------------------------------------------
(* filters.py: keyword sets.                                               *)

GROWTH_KEYWORDS ==
    { <<"g","r","o","w","t","h">>,
      <<"m","a","r","k","e","t","i","n","g">>,
      <<"d","i","g","i","t","a","l">>,
      <<"b","r","a","n","d","i","n","g">>,
      <<"c","o","n","s","u","l","t","i","n","g">>,
      <<"i","n","n","o","v","a","t","i","o","n">>,
      <<"s","t","r","a","t","e","g","y">>,
      <<"v","e","n","t","u","r","e">>,
      <<"c","a","p","i","t","a","l">>,
      <<"a","c","c","e","l","e","r","a","t","o","r">>,
      <<"c","o","w","o","r","k","i","n","g">>,
      <<"d","e","s","i","g","n">>,
      <<"d","e","v","e","l","o","p","m","e","n","t">>,
      <<"c","r","e","a","t","i","v","e">> }

CATEGORY_KEYWORDS ==
    { <<"m","a","r","k","e","t","i","n","g">>,
      <<"c","o","n","s","u","l","t","a","n","t">>,
      <<"a","g","e","n","c","y">>,
      <<"d","e","s","i","g","n">>,
      <<"d","e","v","e","l","o","p","m","e","n","t">>,
      <<"s","o","f","t","w","a","r","e">>,
      <<"v","e","n","t","u","r","e">>,
      <<"c","a","p","i","t","a","l">>,
      <<"i","n","v","e","s","t","m","e","n","t">>,
      <<"c","o","w","o","r","k","i","n","g">>,
      <<"a","c","c","e","l","e","r","a","t","o","r">>,
      <<"b","r","a","n","d","i","n","g">>,
      <<"c","r","e","a","t","i","v","e">>,
      <<"s","t","u","d","i","o">>,
      <<"s","t","r","a","t","e","g","y">> }

----------------------------------------------------------------------------
(* filters.py: estimate_growth_score.  Bonuses in hundredths.              *)

max_score == 165

AdclickBonus == 25
WebsiteBonus == 35
PhoneBonus == 10
CategorizedBonus == 10
CategoryKeywordBonus == 25
DescribedBonus == 10
GrowthKeywordBonus == 25

\* The review tier: taken only when review_count is truthy.
ReviewBonusFlatTop(review_count) ==
    IF ~TruthyNum(review_count) THEN 0
    ELSE IF Get(review_count) >= 20 THEN 20
    ELSE IF Get(review_count) >= 10 THEN 25
    ELSE IF Get(review_count) >= 5 THEN 20
    ELSE 10

ReviewBonus(review_count) ==
    IF ~TruthyNum(review_count) THEN 0
    ELSE IF Get(review_count) >= 20 THEN 30
    ELSE IF Get(review_count) >= 10 THEN 25
    ELSE IF Get(review_count) >= 5 THEN 20
    ELSE 10

\* The rating tier (rating in tenths of a star): taken only when rating is
\* truthy; below 3.5 nothing is added.
RatingBonus(rating) ==
    IF ~TruthyNum(rating) THEN 0
    ELSE IF Get(rating) >= 45 THEN 25
    ELSE IF Get(rating) >= 40 THEN 20
    ELSE IF Get(rating) >= 35 THEN 15
    ELSE 0

categories_text(lead) == Lower(JoinSpace(lead.categories))

description_text(lead) ==
    Lower(IF IsNone(lead.description) THEN <<>> ELSE Get(lead.description))

CategoryKeywordHit(lead) ==
    LET text == categories_text(lead)
    IN  \E keyword \in CATEGORY_KEYWORDS : Contains(text, keyword)

GrowthKeywordHit(lead) ==
    LET text == description_text(lead)
    IN  \E keyword \in GROWTH_KEYWORDS : Contains(text, keyword)

\* `score` as it stands before the normalization (lines 47-88).
WeightedSum(lead) ==
      (IF TruthyFlag(lead.analytics) THEN AdclickBonus ELSE 0)
    + (IF TruthyStr(lead.website) THEN WebsiteBonus ELSE 0)
    + (IF TruthyStr(lead.phone) THEN PhoneBonus ELSE 0)
    + ReviewBonus(lead.review_count)
    + RatingBonus(lead.rating)
    + (IF lead.categories # <<>> THEN CategorizedBonus ELSE 0)
    + (IF CategoryKeywordHit(lead) THEN CategoryKeywordBonus ELSE 0)
    + (IF description_text(lead) # <<>> THEN DescribedBonus ELSE 0)
    + (IF GrowthKeywordHit(lead) THEN GrowthKeywordBonus ELSE 0)

\* normalized = min(score / max_score, 1.0), as the numerator of a fraction
\* over max_score: the value is exactly 1.0 iff the numerator is max_score.
NormalizedUnclamped(score) == score

Normalized(score) == IF score < max_score THEN score ELSE max_score

\* round(normalized, 3), in thousandths.  1000 * n / 165 is never half way
\* between two integers (400 n = 33 (2k + 1) has no solution), so rounding
\* half to even and rounding half up agree.
Round3(n) == (2000 * n + max_score) \div (2 * max_score)

estimate_growth_score(lead) == Round3(Normalized(WeightedSum(lead)))

----------------------------------------------------------------------------
(* filters.py: estimate_budget_range and apply_budget_filter.              *)

\* The ladder with > in place of >=.
BudgetBracketStrict(growth_score) ==
    IF growth_score > 650 THEN Some(<<4500, 6500>>)
    ELSE IF growth_score > 450 THEN Some(<<3200, 5200>>)
    ELSE IF growth_score > 350 THEN Some(<<2600, 4000>>)
    ELSE IF growth_score > 250 THEN Some(<<1800, 3000>>)
    ELSE None

\* The ladder with the brackets of the two middle tiers exchanged.
BudgetBracketSwapped(growth_score) ==
    IF growth_score >= 650 THEN Some(<<4500, 6500>>)
    ELSE IF growth_score >= 450 THEN Some(<<2600, 4000>>)
    ELSE IF growth_score >= 350 THEN Some(<<3200, 5200>>)
    ELSE IF growth_score >= 250 THEN Some(<<1800, 3000>>)
    ELSE None

\* Lines 100-108: the threshold ladder, first match from the top.
BudgetBracket(growth_score) ==
    IF growth_score >= 650 THEN Some(<<4500, 6500>>)
    ELSE IF growth_score >= 450 THEN Some(<<3200, 5200>>)
    ELSE IF growth_score >= 350 THEN Some(<<2600, 4000>>)
    ELSE IF growth_score >= 250 THEN Some(<<1800, 3000>>)
    ELSE None

\* The score computed on every call, the stored one ignored.
GrowthScoreRecomputed(lead) == estimate_growth_score(lead)

\* Line 97: the stored score if there is one, else a fresh estimate.
GrowthScoreOf(lead) ==
    IF ~IsNone(lead.growth_score) THEN Get(lead.growth_score)
    ELSE estimate_growth_score(lead)

\* estimate_budget_range(lead): the lead as the call leaves it, and the
\* value returned.
estimate_budget_range(lead) ==
    LET growth_score == GrowthScoreOf(lead)
    IN  [ lead  |-> [lead EXCEPT !.growth_score = Some(growth_score)],
          value |-> BudgetBracket(growth_score) ]

\* The test of line 121, with >= and <= exchanged for > and <.
OverlapsStrict(estimated, minimum, maximum) ==
    estimated[1] < maximum /\ estimated[2] > minimum

\* Line 121: low <= maximum and high >= minimum.
Overlaps(estimated, minimum, maximum) ==
    estimated[1] <= maximum /\ estimated[2] >= minimum

RECURSIVE apply_budget_filter(_, _, _, _, _)
\* apply_budget_filter(leads, minimum, maximum): the loop of lines 115-122
\* over the positions `todo`, from the objects `heap` and the list `filtered`
\* built so far; gives the objects as the loop leaves them and the list
\* returned.
apply_budget_filter(heap, todo, filtered, minimum, maximum) ==
    IF todo = <<>> THEN [heap |-> heap, filtered |-> filtered]
    ELSE
        LET at        == Head(todo)
            call      == estimate_budget_range(heap[at])
            estimated == call.value
            lead      == [call.lead EXCEPT !.estimated_budget = estimated]
            kept      == /\ ~IsNone(estimated)
                         /\ Overlaps(Get(estimated), minimum, maximum)
        IN  apply_budget_filter([heap EXCEPT ![at] = lead], Tail(todo),
                                IF kept THEN Append(filtered, at) ELSE filtered,
                                minimum, maximum)

----------------------------------------------------------------------------
(* models.py: deduplicate.  The dict best_by_key is the sequence of its    *)
(* <<key, lead>> entries in insertion order, the order list(d.values())    *)
(* reads them in.                                                          *)

\* Line 60: f"{lead.name.lower()}::{(lead.phone or '').strip()}"
DedupKey(lead) ==
    Lower(lead.name) \o <<":", ":">>
        \o Strip(IF TruthyStr(lead.phone) THEN Get(lead.phone) ELSE <<>>)

\* The test of line 68 with >= in place of >.
ReplacesOnTie(new_score, existing_score) == new_score >= existing_score

\* Line 68: new_score > existing_score.
Replaces(new_score, existing_score) == new_score > existing_score

\* The entry deleted and inserted again, which moves it to the end.
StoreMoved(best_by_key, at, key, lead) ==
    SubSeq(best_by_key, 1, at - 1)
        \o SubSeq(best_by_key, at + 1, Len(best_by_key))
        \o <<<<key, lead>>>>

\* Line 69: best_by_key[key] = lead for a key already in the dict; the
\* entry keeps its place.
Store(best_by_key, at, key, lead) ==
    [best_by_key EXCEPT ![at] = <<key, lead>>]

RECURSIVE deduplicate(_, _, _)
\* deduplicate(leads): the loop of lines 59-69 over the positions `todo`
\* with the dict built so far, then the list of its values.
deduplicate(heap, todo, best_by_key) ==
    IF todo = <<>> THEN [k \in 1..Len(best_by_key) |-> best_by_key[k][2]]
    ELSE
        LET lead  == Head(todo)
            key   == DedupKey(heap[lead])
            found == {k \in 1..Len(best_by_key) : best_by_key[k][1] = key}
        IN  IF found = {}
            THEN deduplicate(heap, Tail(todo), Append(best_by_key, <<key, lead>>))
            ELSE
                LET at             == CHOOSE k \in found : TRUE
                    existing       == best_by_key[at][2]
                    existing_score == OrZero(heap[existing].growth_score)
                    new_score      == OrZero(heap[lead].growth_score)
                IN  deduplicate(heap, Tail(todo),
                                IF Replaces(new_score, existing_score)
                                THEN Store(best_by_key, at, key, lead)
                                ELSE best_by_key)

----------------------------------------------------------------------------
(* cli.py: collect_leads.                                                  *)

\* The order of an ascending sort: reverse=True left out.
ComesBeforeAscending(kept_key, new_key) == kept_key <= new_key

\* sorted(..., reverse=True): an element stays ahead of a later element
\* whose key is not greater (the sort is stable).
ComesBefore(kept_key, new_key) == kept_key >= new_key

RECURSIVE SortedByScore(_, _, _)
\* Line 85: sorted(leads, key=lambda lead: lead.growth_score or 0,
\* reverse=True), by stable insertion of `todo` into `sorted`.
SortedByScore(heap, todo, sorted) ==
    IF todo = <<>> THEN sorted
    ELSE
        LET lead  == Head(todo)
            key   == OrZero(heap[lead].growth_score)
            ahead == Cardinality(
                        {k \in 1..Len(sorted) :
                            ComesBefore(OrZero(heap[sorted[k]].growth_score), key)})
        IN  SortedByScore(heap, Tail(todo),
                          SubSeq(sorted, 1, ahead) \o <<lead>>
                              \o SubSeq(sorted, ahead + 1, Len(sorted)))

----------------------------------------------------------------------------
(* models.py: the Lead record.  location, source and extras are carried    *)
(* through the pipeline untouched and read by no decision, and are left    *)
(* out.  `analytics` holds analytics.get("adclick") as an Optional.        *)

Lead(name, phone, description, website, categories, rating, review_count, analytics, growth_score) ==
    [ name             |-> name,
      phone            |-> phone,
      description      |-> description,
      website          |-> website,
      categories       |-> categories,
      rating           |-> rating,
      review_count     |-> review_count,
      analytics        |-> analytics,
      estimated_budget |-> None,
      growth_score     |-> growth_score ]

----------------------------------------------------------------------------
(* The values the inputs are drawn from.                                   *)

\* The list <<1, ..., n>>: every object once, in order.
Positions(n) == [k \in 1..n |-> k]

\* The lists of up to n elements of S.
ListsOf(S, n) == UNION {[1..m -> S] : m \in 0..n}

\* Review counts run over 0..MaxReviewCount, which reaches the top tier.
MaxReviewCount == 20

Acme == <<"A","c","m","e">>

Url == <<"u","r","l">>

Phone555 == <<"5","5","5">>

Spa == <<"S","p","a">>

DesignStudio == <<"D","e","s","i","g","n"," ","S","t","u","d","i","o">>

DigitalSpa == <<"D","I","G","I","T","A","L"," ","s","p","a">>

AnalyticsValues == {None, Some(FALSE), Some(TRUE)}

WebsiteValues == {None, Some(Url)}

\* -1 is the malformed count the code passes through unvalidated.
ReviewValues == {None} \cup {Some(n) : n \in -1..MaxReviewCount}

\* yellowpages.py: the ratings the scraper can produce, in tenths of a star.
RATING_CLASS_MAP == {0, 10, 15, 20, 25, 30, 35, 40, 45, 50}

\* The scraper's ratings and the 4.2 of tests/test_filters.py.
RatingValues == {None} \cup {Some(r) : r \in RATING_CLASS_MAP \cup {42}}

CategoriesValues == {<<>>, <<Spa>>, <<Spa, DesignStudio>>}

DescriptionValues == {None, Some(<<>>), Some(Spa), Some(DigitalSpa)}

ScorePhoneValues == {None, Some(Phone555)}

ScoreLeads ==
    { Lead(Acme, p, d, w, c, r, n, a, None) :
        p \in ScorePhoneValues, d \in DescriptionValues, w \in WebsiteValues,
        c \in CategoriesValues, r \in RatingValues, n \in ReviewValues,
        a \in AnalyticsValues }

----------------------------------------------------------------------------
(* SpecScore: a caller scores one lead with estimate_growth_score, then    *)
(* changes one field of it at a time and scores it again.                  *)

ScoreInit ==
    /\ leads \in {<<l>> : l \in ScoreLeads}
    /\ listing = <<>>
    /\ window = <<0, 0>>
    /\ ret = None
    /\ pc = "start"

CallEstimateGrowthScore ==
    /\ pc = "start"
    /\ ret' = Some(estimate_growth_score(leads[1]))
    /\ pc' = "scored"
    /\ UNCHANGED <<leads, listing, window>>

\* The caller stores `lead` over the scored lead and calls the scorer again.
Rescore(lead) ==
    /\ pc = "scored"
    /\ leads' = <<lead>>
    /\ ret' = Some(estimate_growth_score(lead))
    /\ UNCHANGED <<listing, window, pc>>

SetAnalytics == \E v \in AnalyticsValues : Rescore([leads[1] EXCEPT !.analytics = v])

SetWebsite == \E v \in WebsiteValues : Rescore([leads[1] EXCEPT !.website = v])

SetPhone == \E v \in ScorePhoneValues : Rescore([leads[1] EXCEPT !.phone = v])

SetReviewCount == \E v \in ReviewValues : Rescore([leads[1] EXCEPT !.review_count = v])

SetRating == \E v \in RatingValues : Rescore([leads[1] EXCEPT !.rating = v])

SetCategories == \E v \in CategoriesValues : Rescore([leads[1] EXCEPT !.categories = v])

SetDescription == \E v \in DescriptionValues : Rescore([leads[1] EXCEPT !.description = v])

ScoreNext ==
    \/ CallEstimateGrowthScore
    \/ SetAnalytics
    \/ SetWebsite
    \/ SetPhone
    \/ SetReviewCount
    \/ SetRating
    \/ SetCategories
    \/ SetDescription

SpecScore == ScoreInit /\ [][ScoreNext]_vars


----------------------------------------------------------------------------
(* Claims about estimate_growth_score, under SpecScore.                    *)

\* A lead with every positive signal of the scorer.
HitsEverySignal(lead) ==
    /\ TruthyFlag(lead.analytics)
    /\ TruthyStr(lead.website)
    /\ TruthyStr(lead.phone)
    /\ TruthyNum(lead.review_count) /\ Get(lead.review_count) >= 20
    /\ TruthyNum(lead.rating) /\ Get(lead.rating) >= 45
    /\ lead.categories # <<>>
    /\ CategoryKeywordHit(lead)
    /\ description_text(lead) # <<>>
    /\ GrowthKeywordHit(lead)

\* C6, as stated: the denominator max_score equals the sum of all attainable
\* bonuses, so a lead hitting every signal has a weighted sum equal to it.
C6_DenominatorIsAttainableSum ==
    (pc = "scored" /\ HitsEverySignal(leads[1]))
        => WeightedSum(leads[1]) = max_score

\* C6, amended: a lead hitting every signal has the weighted sum 1.95, above
\* the denominator 1.65; it is the clamp min(score / max_score, 1.0) that
\* makes its normalized value exactly 1.0, and its score 1.0.
C6_FullLeadClampedToOne ==
    (pc = "scored" /\ HitsEverySignal(leads[1]))
        => /\ WeightedSum(leads[1]) = 195
           /\ WeightedSum(leads[1]) > max_score
           /\ ret = Some(1000)

C6_Witness ==
    pc = "scored" /\ HitsEverySignal(leads[1]) /\ ret = Some(1000)

\* review_count absent or >= 0, rating absent or within 0.0 .. 5.0.
WellFormed(lead) ==
    /\ IsNone(lead.review_count) \/ Get(lead.review_count) >= 0
    /\ IsNone(lead.rating) \/ (Get(lead.rating) >= 0 /\ Get(lead.rating) <= 50)

\* y is at least as high as x; an absent value is below every present one.
AtLeast(y, x) == IsNone(x) \/ (~IsNone(y) /\ Get(y) >= Get(x))

\* b has every boolean signal of a, and a review count and rating at least
\* as high.
Dominates(b, a) ==
    /\ AtLeast(b.review_count, a.review_count)
    /\ AtLeast(b.rating, a.rating)
    /\ TruthyFlag(a.analytics) => TruthyFlag(b.analytics)
    /\ TruthyStr(a.website) => TruthyStr(b.website)
    /\ TruthyStr(a.phone) => TruthyStr(b.phone)
    /\ a.categories # <<>> => b.categories # <<>>
    /\ TruthyStr(a.description) => TruthyStr(b.description)
    /\ CategoryKeywordHit(a) => CategoryKeywordHit(b)
    /\ GrowthKeywordHit(a) => GrowthKeywordHit(b)

\* C7: the score is monotone in the signals.  Every step that takes a scored
\* well-formed lead to a well-formed lead dominating it does not lower the
\* score.  A step changes one field to any value, and every two leads one of
\* which dominates the other are joined by a chain of such steps through
\* leads that dominate each other in turn, so the steps give all pairs.
C7_ScoreMonotone ==
    [][ ( /\ pc = "scored"
          /\ WellFormed(leads[1]) /\ WellFormed(leads'[1])
          /\ Dominates(leads'[1], leads[1]) )
        => Get(ret') >= Get(ret) ]_vars

\* A scored, well-formed lead in the top review tier whose score reflects it:
\* it was reached from leads it dominates.
C7_Witness ==
    /\ pc = "scored"
    /\ WellFormed(leads[1])
    /\ leads[1].review_count = Some(20)
    /\ leads[1].rating = Some(45)
    /\ IsNone(leads[1].website)
    /\ ret = Some(estimate_growth_score(leads[1]))
    /\ Get(ret) > 0


----------------------------------------------------------------------------
(* SpecEstimate: one lead, whose growth_score a caller has set or left     *)
(* unset, goes through any sequence of estimate_budget_range and           *)
(* apply_budget_filter calls, the caller replacing its other fields in     *)
(* between.                                                                *)

\* Growth scores (in thousandths) a caller sets run over 0..MaxGrowthScore.
MaxGrowthScore == 1000

GrowthScoreValues == {None} \cup {Some(g) : g \in 0..MaxGrowthScore}

\* name only; the lead of test_budget_range_available_for_marketing_leads_
\* without_reviews in kind; a lead with every signal.
BareFields == Lead(Acme, None, None, None, <<>>, None, None, None, None)

MidFields ==
    Lead(Acme, None, Some(DigitalSpa), Some(Url), <<DesignStudio>>, None, None,
         None, None)

FullFields ==
    Lead(Acme, Some(Phone555), Some(DigitalSpa), Some(Url), <<DesignStudio>>,
         Some(45), Some(20), Some(TRUE), None)

FieldSamples == {BareFields, MidFields, FullFields}

\* The cli.py defaults of --budget-min and --budget-max.
DefaultWindow == <<3000, 5000>>

EstimateInit ==
    /\ leads \in {<<[f EXCEPT !.growth_score = g]>> :
                    f \in FieldSamples, g \in GrowthScoreValues}
    /\ listing = <<1>>
    /\ window = DefaultWindow
    /\ ret = None
    /\ pc = "new"

CallEstimateBudgetRange ==
    LET call == estimate_budget_range(leads[1])
    IN  /\ leads' = <<call.lead>>
        /\ ret' = call.value
        /\ pc' = "estimated"
        /\ UNCHANGED <<listing, window>>

\* apply_budget_filter(leads, minimum, maximum) on the caller's whole list.
CallApplyBudgetFilter ==
    LET out == apply_budget_filter(leads, Positions(Len(leads)), <<>>,
                                   window[1], window[2])
    IN  /\ leads' = out.heap
        /\ listing' = out.filtered
        /\ pc' = "filtered"
        /\ UNCHANGED <<window, ret>>

\* The caller overwrites website, reviews, rating, categories, description,
\* phone and analytics; growth_score and estimated_budget stay.
ChangeFields ==
    \E f \in FieldSamples :
        /\ leads' = <<[f EXCEPT !.growth_score = leads[1].growth_score,
                                !.estimated_budget = leads[1].estimated_budget]>>
        /\ UNCHANGED <<listing, window, ret, pc>>

EstimateNext ==
    \/ CallEstimateBudgetRange
    \/ CallApplyBudgetFilter
    \/ ChangeFields

SpecEstimate == EstimateInit /\ [][EstimateNext]_vars


----------------------------------------------------------------------------
(* Claims about estimate_budget_range, under SpecEstimate.                 *)

\* C4: after estimate_budget_range the returned bracket is that of the first
\* tier, from the highest threshold downward with >=, that the lead's
\* growth_score reaches; a score equal to a threshold gets the higher tier.
C4_BracketOfFirstTierReached ==
    pc = "estimated" =>
        LET g == Get(leads[1].growth_score)
        IN  /\ g >= 650 => ret = Some(<<4500, 6500>>)
            /\ (450 <= g /\ g < 650) => ret = Some(<<3200, 5200>>)
            /\ (350 <= g /\ g < 450) => ret = Some(<<2600, 4000>>)
            /\ (250 <= g /\ g < 350) => ret = Some(<<1800, 3000>>)
            /\ g < 250 => ret = None

\* A score exactly on the top threshold was given the top bracket.
C4_Witness ==
    /\ pc = "estimated"
    /\ leads[1].growth_score = Some(650)
    /\ ret = Some(<<4500, 6500>>)

\* The number of thresholds a score reaches: 0 below the ladder, 4 at its top.
TierOf(g) == Cardinality({t \in {250, 350, 450, 650} : g >= t})

\* Every <<tier, bracket>> the estimator's ladder gives over the scores.
TierBrackets ==
    { <<TierOf(g), Get(BudgetBracket(g))>> :
        g \in {h \in 0..MaxGrowthScore : ~IsNone(BudgetBracket(h))} }

\* C5, as stated: the bracket returned lies wholly above the bracket of
\* every lower tier (the lower bracket's high is below its low).
C5_BracketsDoNotOverlap ==
    (pc = "estimated" /\ ~IsNone(ret)) =>
        \A tb \in TierBrackets :
            tb[1] < TierOf(Get(leads[1].growth_score))
                => tb[2][2] < Get(ret)[1]

\* C5, amended: the brackets are strictly distinct and ascend with the
\* threshold, the bracket returned having a higher low and a higher high than
\* the bracket of every lower tier; brackets of adjacent tiers overlap.
C5_BracketsAscend ==
    (pc = "estimated" /\ ~IsNone(ret)) =>
        /\ Get(ret)[1] <= Get(ret)[2]
        /\ \A tb \in TierBrackets :
              tb[1] < TierOf(Get(leads[1].growth_score))
                  => /\ tb[2] # Get(ret)
                     /\ tb[2][1] < Get(ret)[1]
                     /\ tb[2][2] < Get(ret)[2]
        /\ \A tb \in TierBrackets :
              tb[1] + 1 = TierOf(Get(leads[1].growth_score))
                  => tb[2][2] >= Get(ret)[1]

\* The second tier's bracket was returned; it overlaps the third's.
C5_Witness ==
    /\ pc = "estimated"
    /\ ret = Some(<<3200, 5200>>)
    /\ <<2, <<2600, 4000>>>> \in TierBrackets

\* C8: once growth_score is set, every estimate_budget_range or
\* apply_budget_filter call, and every change of the other fields, leaves it
\* at that value, and a call estimates the bracket of that value.
C8_ScoreReused ==
    [][ ~IsNone(leads[1].growth_score) =>
            /\ leads'[1].growth_score = leads[1].growth_score
            /\ pc' = "estimated" =>
                   ret' = BudgetBracket(Get(leads[1].growth_score))
            /\ pc' = "filtered" =>
                   leads'[1].estimated_budget
                       = BudgetBracket(Get(leads[1].growth_score)) ]_vars

\* The estimator has run on a lead filtered before, whose fields now score
\* otherwise than the stored growth_score, and returned the stored score's
\* bracket.
C8_Witness ==
    /\ pc = "estimated"
    /\ ~IsNone(leads[1].estimated_budget)
    /\ leads[1].growth_score = Some(1000)
    /\ estimate_growth_score(leads[1]) = 0
    /\ ret = Some(<<4500, 6500>>)


----------------------------------------------------------------------------
(* SpecDedup: a caller passes a list of leads, whose growth_score it has   *)
(* set or left unset, to deduplicate.                                      *)

\* The input list holds up to MaxLeads leads.
MaxLeads == 3

AcmeLower == <<"a","c","m","e">>

Phone555Padded == <<" ","5","5","5">>

DedupNameValues == {Acme, AcmeLower}

DedupPhoneValues == {None, Some(Phone555), Some(Phone555Padded)}

DedupScoreValues == {None, Some(0), Some(700)}

DedupLeads ==
    { Lead(n, p, None, None, <<>>, None, None, None, g) :
        n \in DedupNameValues, p \in DedupPhoneValues, g \in DedupScoreValues }

DedupInit ==
    /\ leads \in ListsOf(DedupLeads, MaxLeads)
    /\ listing = Positions(Len(leads))
    /\ window = DefaultWindow
    /\ ret = None
    /\ pc = "call"

CallDeduplicate ==
    /\ pc = "call"
    /\ listing' = deduplicate(leads, listing, <<>>)
    /\ pc' = "deduplicated"
    /\ UNCHANGED <<leads, window, ret>>

DedupNext == CallDeduplicate

SpecDedup == DedupInit /\ [][DedupNext]_vars

----------------------------------------------------------------------------
(* Claims about deduplicate, under SpecDedup.  The input list is           *)
(* <<1, ..., Len(leads)>>; deduplicate leaves the objects untouched.       *)

\* The identity key of the claims: lowercased name, separator, trimmed
\* phone, empty when the phone is absent.
IdentityKey(lead) ==
    Lower(lead.name) \o <<":", ":">>
        \o (IF IsNone(lead.phone) THEN <<>> ELSE Strip(Get(lead.phone)))

\* The input positions whose lead has the identity key of position i.
Group(i) == {j \in 1..Len(leads) : IdentityKey(leads[j]) = IdentityKey(leads[i])}

\* C2: deduplicate returns exactly one lead per identity key, the one with
\* the highest growth_score of its key (a missing score counts as 0), the
\* earliest of the input among those tied for the highest.
C2_OneBestLeadPerKey ==
    pc = "deduplicated" =>
        /\ \A k \in 1..Len(listing) : listing[k] \in 1..Len(leads)
        /\ \A i \in 1..Len(leads) :
              Cardinality({k \in 1..Len(listing) : listing[k] \in Group(i)}) = 1
        /\ \A k \in 1..Len(listing) : \A j \in Group(listing[k]) :
              /\ OrZero(leads[j].growth_score)
                    <= OrZero(leads[listing[k]].growth_score)
              /\ OrZero(leads[j].growth_score)
                    = OrZero(leads[listing[k]].growth_score) => listing[k] <= j

\* Three leads of one key: the first scores lowest, the last two tie for the
\* highest, and the second is the one returned.
C2_Witness ==
    /\ pc = "deduplicated"
    /\ Len(leads) = 3
    /\ Group(1) = {1, 2, 3}
    /\ leads[1].name # leads[2].name
    /\ leads[1].phone # leads[2].phone
    /\ IsNone(leads[1].growth_score)
    /\ leads[2].growth_score = Some(700)
    /\ leads[3].growth_score = Some(700)
    /\ listing = <<2>>

\* The input position at which the key of position i first occurs.
FirstSeen(i) == CHOOSE j \in Group(i) : \A h \in Group(i) : j <= h

\* C3: the output lists the retained leads in the order in which their keys
\* first occur in the input, also when a later duplicate replaced the first.
C3_FirstSeenOrder ==
    pc = "deduplicated" =>
        \A p, q \in 1..Len(listing) :
            p < q => FirstSeen(listing[p]) < FirstSeen(listing[q])

\* Keys in the order k1, k2, k1, the third lead replacing the first: the
\* output is <<best of k1, lead of k2>>.
C3_Witness ==
    /\ pc = "deduplicated"
    /\ Len(leads) = 3
    /\ Group(1) = {1, 3}
    /\ OrZero(leads[3].growth_score) > OrZero(leads[1].growth_score)
    /\ listing = <<3, 2>>


----------------------------------------------------------------------------
(* SpecFilter: a caller passes a list of leads and a budget window to      *)
(* apply_budget_filter.                                                    *)

\* The cli defaults; a window ending on the lowest bracket's low; a window
\* starting on the second bracket's high; a window above every bracket; a
\* window with minimum above maximum.
Windows ==
    {DefaultWindow, <<1000, 1800>>, <<5200, 7000>>, <<7000, 9000>>, <<5000, 3000>>}

FilterLeads ==
    {[BareFields EXCEPT !.growth_score = g] :
        g \in {None, Some(100), Some(250), Some(400), Some(500), Some(800)}}
    \cup {MidFields}

FilterInit ==
    /\ leads \in ListsOf(FilterLeads, MaxLeads)
    /\ listing = Positions(Len(leads))
    /\ window \in Windows
    /\ ret = None
    /\ pc = "call"

FilterNext == CallApplyBudgetFilter

SpecFilter == FilterInit /\ [][FilterNext]_vars

\* C1: apply_budget_filter returns exactly the input leads whose estimated
\* bracket is not None and has low <= maximum and high >= minimum, in their
\* input order; a lead with no bracket is dropped.
C1_FilterKeepsOverlapping ==
    pc = "filtered" =>
        LET InWindow(i) ==
                /\ ~IsNone(leads[i].estimated_budget)
                /\ Get(leads[i].estimated_budget)[1] <= window[2]
                /\ Get(leads[i].estimated_budget)[2] >= window[1]
        IN  /\ listing = SelectSeq(Positions(Len(leads)), InWindow)
            /\ \A i \in 1..Len(leads) :
                  /\ ~IsNone(leads[i].growth_score)
                  /\ leads[i].estimated_budget
                        = BudgetBracket(Get(leads[i].growth_score))

\* Window <<1000, 1800>>: a lead whose bracket only touches the window
\* (low = maximum) is kept, between a lead with no bracket and one whose
\* bracket lies above the window, both dropped.
C1_Witness ==
    /\ pc = "filtered"
    /\ window = <<1000, 1800>>
    /\ Len(leads) = 3
    /\ IsNone(leads[1].estimated_budget)
    /\ leads[2].estimated_budget = Some(<<1800, 3000>>)
    /\ leads[3].estimated_budget = Some(<<3200, 5200>>)
    /\ listing = <<2>>

----------------------------------------------------------------------------
(* SpecPipeline: collect_leads.  The scraper's fetch gives a list of fresh *)
(* leads, built by _parse_result with neither growth_score nor             *)
(* estimated_budget; they are deduplicated, filtered and sorted.           *)

Bolt == <<"B","o","l","t">>

\* yellowpages.py, _parse_result: name and phone are stripped text.
ScrapedLeads ==
    {[f EXCEPT !.name = n, !.phone = p] :
        f \in FieldSamples, n \in {Acme, Bolt}, p \in {None, Some(Phone555)}}

PipelineInit ==
    /\ leads = <<>>
    /\ listing = <<>>
    /\ window \in Windows
    /\ ret = None
    /\ pc = "fetch"

\* Lines 78-81: the leads of every query, in one list.
CollectFetch ==
    /\ pc = "fetch"
    /\ leads' \in ListsOf(ScrapedLeads, MaxLeads)
    /\ listing' = Positions(Len(leads'))
    /\ pc' = "deduplicate"
    /\ UNCHANGED <<window, ret>>

\* Line 83.
CollectDeduplicate ==
    /\ pc = "deduplicate"
    /\ listing' = deduplicate(leads, listing, <<>>)
    /\ pc' = "filter"
    /\ UNCHANGED <<leads, window, ret>>

\* Line 84.
CollectFilter ==
    /\ pc = "filter"
    /\ LET out == apply_budget_filter(leads, listing, <<>>, window[1], window[2])
       IN  /\ leads' = out.heap
           /\ listing' = out.filtered
    /\ pc' = "sort"
    /\ UNCHANGED <<window, ret>>

\* Line 85.
CollectSort ==
    /\ pc = "sort"
    /\ listing' = SortedByScore(leads, listing, <<>>)
    /\ pc' = "done"
    /\ UNCHANGED <<leads, window, ret>>

PipelineNext ==
    \/ CollectFetch
    \/ CollectDeduplicate
    \/ CollectFilter
    \/ CollectSort

SpecPipeline == PipelineInit /\ [][PipelineNext]_vars

\* C9: every lead collect_leads returns carries a growth_score and an
\* estimated_budget, and the list is in non-increasing growth_score order.
C9_ReturnedLeadsScoredAndSorted ==
    pc = "done" =>
        /\ \A k \in 1..Len(listing) :
              /\ listing[k] \in 1..Len(leads)
              /\ ~IsNone(leads[listing[k]].growth_score)
              /\ ~IsNone(leads[listing[k]].estimated_budget)
        /\ \A p, q \in 1..Len(listing) :
              p < q => Get(leads[listing[p]].growth_score)
                          >= Get(leads[listing[q]].growth_score)

\* Two leads were returned, the higher-scoring one, scraped later, first.
C9_Witness ==
    /\ pc = "done"
    /\ Len(listing) = 2
    /\ listing[1] > listing[2]
    /\ Get(leads[listing[1]].growth_score) > Get(leads[listing[2]].growth_score)
    /\ ~IsNone(leads[listing[2]].estimated_budget)

\* C10: in collect_leads, of the scraped leads sharing an identity key the
\* one that survives deduplication is the one estimate_growth_score scores
\* highest.
C10_SurvivorScoresHighest ==
    pc = "filter" =>
        \A k \in 1..Len(listing) : \A j \in Group(listing[k]) :
            estimate_growth_score(leads[j])
                <= estimate_growth_score(leads[listing[k]])


----------------------------------------------------------------------------
(* SpecDedupKey: deduplicate on leads whose names and phones may hold the  *)
(* characters of the key's separator.                                      *)

NameA == <<"a">>

NameUpperA == <<"A">>

NameAColon == <<"a", ":">>

PhoneColon == <<":">>

Phone5 == <<"5">>

Phone5Padded == <<" ", "5">>

KeyNameValues == {NameA, NameUpperA, NameAColon}

KeyPhoneValues == {None, Some(PhoneColon), Some(Phone5), Some(Phone5Padded)}

KeyLeads ==
    { Lead(n, p, None, None, <<>>, None, None, None, None) :
        n \in KeyNameValues, p \in KeyPhoneValues }

DedupKeyInit ==
    /\ leads \in ListsOf(KeyLeads, MaxLeads)
    /\ listing = Positions(Len(leads))
    /\ window = DefaultWindow
    /\ ret = None
    /\ pc = "call"

SpecDedupKey == DedupKeyInit /\ [][DedupNext]_vars

\* The identity pair of a lead: lowercased name, and trimmed phone, empty
\* when the phone is absent.
IdentityPair(lead) ==
    <<Lower(lead.name), IF IsNone(lead.phone) THEN <<>> ELSE Strip(Get(lead.phone))>>

\* C11: deduplicate never collapses two leads whose identity pairs differ.
\* Two input leads have the same key string only if their lowercased names
\* and their trimmed phones are equal, and every identity pair of the input
\* is that of a lead of the output.
C11_DistinctPairsKept ==
    pc = "deduplicated" =>
        /\ \A i, j \in 1..Len(leads) :
              DedupKey(leads[i]) = DedupKey(leads[j])
                  => IdentityPair(leads[i]) = IdentityPair(leads[j])
        /\ \A i \in 1..Len(leads) : \E k \in 1..Len(listing) :
              IdentityPair(leads[listing[k]]) = IdentityPair(leads[i])


============================================================================
